---- MODULE Spec2Model ----
(***************************************************************************)
(* Model of the OpenApiValidator middleware (src/src/index.js).            *)
(*                                                                         *)
(* One middleware instance is constructed from `params` and installed.     *)
(* The installed async function is modelled by two actions: Invoke runs    *)
(* the synchronous part up to the `await` of the wrapped handler (or to    *)
(* the end of the catch block when a fault is raised before it), Resume    *)
(* runs the continuation after the await.  `config` and `thisEvent` are    *)
(* the instance fields this.config and this.event, shared by every         *)
(* invocation of the instance.                                             *)
(***************************************************************************)
EXTENDS Integers, Sequences, FiniteSets, TLC

VARIABLES params, config, thisEvent, inv

vars == <<params, config, thisEvent, inv>>

(***************************************************************************)
(* Bounds of the model.                                                    *)
(***************************************************************************)
MaxInFlight == 2

Slots == 1..MaxInFlight

\* F applied to the value of v, with v evaluated once
Bind(v, F(_)) == CHOOSE y \in { F(x) : x \in {v} } : TRUE

(***************************************************************************)
(* JavaScript values.  A value is a record [kind, keys]:                   *)
(*   kind "null"  null / undefined                                         *)
(*   kind "obj"   a structured object whose own property names are `keys`  *)
(*   kind "json"  a string that is the JSON serialization of such an       *)
(*                object                                                   *)
(*   kind "str"   a string that is not JSON                                *)
(* Header objects use keys that are <<name, value>> pairs.                 *)
(***************************************************************************)
NoMsg == [tag |-> "none", path |-> <<>>, verb |-> ""]

Msg(t) == [tag |-> t, path |-> <<>>, verb |-> ""]

Null == [kind |-> "null", keys |-> {}]

Obj(ks) == [kind |-> "obj", keys |-> ks]

Json(ks) == [kind |-> "json", keys |-> ks]

Str == [kind |-> "str", keys |-> {}]

EmptyObj == Obj({})

\* x || {}  for the values of the model (null is the only falsy one)
OrEmpty(x) == IF x.kind = "null" THEN EmptyObj ELSE x

\* JSON.parse of a serialized object
JSONparse(x) == [x EXCEPT !.kind = "obj"]

\* JSON.stringify: of a structured object, the string holding it; of a string,
\* that string quoted once more (kind "quoted", no longer a structured value)
JSONstringify(x) == IF x.kind = "obj" THEN [x EXCEPT !.kind = "json"]
                    ELSE [x EXCEPT !.kind = "quoted"]

\* status codes: a number, or undefined
St(n) == [def |-> TRUE, n |-> n]

NoStatus == [def |-> FALSE, n |-> 0]

BadRequest == 400

InternalError == 500

SuccessLimit == 300

(***************************************************************************)
(* The specification document: path templates in declaration order, each   *)
(* mapping lower-cased verbs to an operation ("none": verb not declared).  *)
(* A template is a sequence of segments, literal or variable.              *)
(***************************************************************************)
Lit(s) == [var |-> FALSE, s |-> s]

Var(s) == [var |-> TRUE, s |-> s]

Verbs == {"get", "post", "delete"}

NoOps == [v \in Verbs |-> "none"]

PetId == [tpl |-> <<Lit("pet"), Var("id")>>, ops |-> [NoOps EXCEPT !["get"] = "getPet"]]

StorePetId == [tpl |-> <<Lit("store"), Lit("pet"), Var("id")>>,
               ops |-> [NoOps EXCEPT !["get"] = "getStorePet"]]

Pet == [tpl |-> <<Lit("pet")>>, ops |-> [NoOps EXCEPT !["post"] = "addPet"]]

KindId == [tpl |-> <<Var("kind"), Var("id")>>,
           ops |-> [NoOps EXCEPT !["get"] = "getAny", !["delete"] = "delAny"]]

PetMine == [tpl |-> <<Lit("pet"), Lit("mine")>>, ops |-> [NoOps EXCEPT !["get"] = "getMine"]]

\* A and B hold the same overlapping templates in two declaration orders;
\* in C no path is an instance of two templates
ApiSpecs == [ A |-> <<PetId, StorePetId, Pet, KindId, PetMine>>,
              B |-> <<PetMine, KindId, Pet, StorePetId, PetId>>,
              C |-> <<PetId, StorePetId, Pet>> ]

Ops == {"getPet", "getStorePet", "addPet", "getAny", "delAny", "getMine"}

\* httpMethod.toLowerCase()
ToLowerVerb(m) ==
    CASE m = "GET" -> "get"
      [] m = "POST" -> "post"
      [] m = "DELETE" -> "delete"
      [] OTHER -> m

\* paths[path]: the template whose key is the path string itself
ExactKey(paths, path) ==
    { k \in 1..Len(paths) :
        /\ Len(paths[k].tpl) = Len(path)
        /\ \A j \in 1..Len(path) : ~paths[k].tpl[j].var /\ paths[k].tpl[j].s = path[j] }

\* one segment of the compiled pattern against one segment of the path:
\* {var} becomes ([a-zA-z0-9-\s\+]|%20)+, which matches any segment of the model
SegMatches(t, s) == t.var \/ t.s = s

\* RegExp(key.replace(...) + '$').test(path): the pattern is anchored at the
\* end only, so it matches when it matches the trailing segments of the path
RegexTest(tpl, path) ==
    /\ Len(tpl) <= Len(path)
    /\ \A j \in 1..Len(tpl) : SegMatches(tpl[j], path[Len(path) - Len(tpl) + j])

\* find(pathKeys, key => regex.test(path) && paths[key][verb]):
\* the first key, in declaration order, that satisfies the predicate; 0 if none
RECURSIVE FindFrom(_, _, _, _)
FindFrom(paths, path, verb, k) ==
    IF k > Len(paths) THEN 0
    ELSE IF RegexTest(paths[k].tpl, path) /\ paths[k].ops[verb] # "none" THEN k
    ELSE FindFrom(paths, path, verb, k + 1)

\* (mutant) the last matching key instead of the first
FindKeyLast(paths, path, verb) ==
    LET ks == { k \in 1..Len(paths) :
                  RegexTest(paths[k].tpl, path) /\ paths[k].ops[verb] # "none" }
    IN  IF ks = {} THEN 0 ELSE CHOOSE k \in ks : \A j \in ks : j <= k

FindKey(paths, path, verb) == FindFrom(paths, path, verb, 1)

\* (mutant) the find predicate without its verb test: the first template whose
\* pattern matches is taken, whatever verbs it declares
ResolveRouteAnyVerb(paths, path, verb) ==
    LET ks == { k \in 1..Len(paths) : RegexTest(paths[k].tpl, path) }
        first == CHOOSE k \in ks : \A j \in ks : k <= j
    IN  IF ks = {} THEN "none"
        ELSE CHOOSE op \in { paths[first].ops[v] : v \in Verbs } : op # "none"

\* Route resolution: the operation assigned to this.config, or "none" when the
\* ValidationError(400) is thrown
ResolveRoute(paths, path, verb) ==
    LET exact == ExactKey(paths, path)
        hit == { k \in exact : paths[k].ops[verb] # "none" }
    IN  IF hit # {} THEN paths[CHOOSE k \in hit : TRUE].ops[verb]
        ELSE LET foundKey == FindKey(paths, path, verb)
             IN  IF foundKey # 0 THEN paths[foundKey].ops[verb] ELSE "none"

(***************************************************************************)
(* The operations' schemas, and the schema-validation engine.  The engine  *)
(* (openApiRequestValidator, openApiResponseValidator, errors, utils) is   *)
(* an external collaborator of index.js; it is modelled from its contract. *)
(***************************************************************************)
HasBody(op) == op = "addPet"

\* request schema of an operation: declared / required property names
DeclBody(op) == IF HasBody(op) THEN {"name", "tag"} ELSE {}

ReqBody(op) == IF HasBody(op) THEN {"name"} ELSE {}

DeclQuery(op) == {"q"}

DeclParams(op) == IF HasBody(op) THEN {} ELSE {"id"}

\* header parameters are declared under lower-cased names
DeclHeaders(op) == {"x-role"}

\* utils.isJson: a structured value, or a string holding one
IsJson(x) == x.kind \in {"obj", "json"}

\* JSON.parse(x) throws a SyntaxError unless x is a string holding JSON
ParseThrows(x) == x.kind # "json"

\* key.toLowerCase() for the header names of the model
LowerHeader(k) ==
    CASE k = "X-Role" -> "x-role"
      [] k = "X-Junk" -> "x-junk"
      [] OTHER -> k

HNames(h) == { pr[1] : pr \in h.keys }

HGet(h, k) == (CHOOSE pr \in h.keys : pr[1] = k)[2]

\* h[k] = v
HPut(h, k, v) == [h EXCEPT !.keys = { pr \in @ : pr[1] # k } \cup {<<k, v>>}]

\* Object.keys(headers).forEach(key => headers[key.toLowerCase()] = headers[key])
\* on the header object itself (request.headers is event.headers)
RECURSIVE LowerCaseInto(_, _)
LowerCaseInto(h, todo) ==
    IF todo = {} THEN h
    ELSE LET k == CHOOSE x \in todo : TRUE
         IN  LowerCaseInto(HPut(h, LowerHeader(k), HGet(h, k)), todo \ {k})

\* Object.keys(event.headers).forEach(key => { if (request.headers[lower(key)])
\*     filtered.headers[key] = request.headers[lower(key)] })
RECURSIVE RestoreCase(_, _)
RestoreCase(h, todo) ==
    IF todo = {} THEN h
    ELSE LET k == CHOOSE x \in todo : TRUE
             h2 == IF LowerHeader(k) \in HNames(h)
                   THEN HPut(h, k, HGet(h, LowerHeader(k))) ELSE h
         IN  RestoreCase(h2, todo \ {k})

\* RequestValidator.validate accepts the composite request
RequestValid(op, request) ==
    /\ request.body.kind = "obj"
    /\ ReqBody(op) \subseteq request.body.keys

\* the request as the validator leaves it: undeclared properties are stripped
\* from each section when removeAdditional is set, nothing else changes
StripTo(x, declared, remove) ==
    IF remove /\ x.kind = "obj" THEN [x EXCEPT !.keys = @ \cap declared] ELSE x

StripHeaders(h, declared, remove) ==
    IF remove THEN [h EXCEPT !.keys = { pr \in @ : pr[1] \in declared }] ELSE h

\* the error RequestValidator.validate throws: a 400-class fault
RequestValidationFault == [msg |-> [tag |-> "request validation failed", path |-> <<>>, verb |-> ""],
                           status |-> [def |-> TRUE, n |-> BadRequest], nullish |-> FALSE]

SanitizeRequest(op, request, remove) ==
    [ body |-> StripTo(request.body, DeclBody(op), remove),
      query |-> StripTo(request.query, DeclQuery(op), remove),
      headers |-> StripHeaders(request.headers, DeclHeaders(op), remove),
      params |-> StripTo(request.params, DeclParams(op), remove) ]

(***************************************************************************)
(* Faults and envelopes.                                                   *)
(***************************************************************************)
\* a thrown value: an Error-like object with message and statusCode, or
\* (nullish) a thrown null / undefined
Fault(m, st) == [msg |-> m, status |-> st, nullish |-> FALSE]

ThrownNull == [msg |-> NoMsg, status |-> NoStatus, nullish |-> TRUE]

NoFault == [msg |-> NoMsg, status |-> NoStatus, nullish |-> FALSE]

\* new ValidationError(message, statusCode)
ValidationError(m, st) == Fault(m, st)

PathNotFoundMsg(path, verb) == [tag |-> "PathNotFound", path |-> path, verb |-> verb]

\* { body, statusCode }; `message` is the value serialized under "message"
\* when the body is a serialized { message } object
Envelope(b, st) == [body |-> b, statusCode |-> st, message |-> NoMsg]

\* { body: JSON.stringify({ message: m }), statusCode }: an undefined message
\* is dropped by JSON.stringify
ErrorEnvelope(m, st) ==
    [ body |-> IF m.tag = "none" THEN Json({}) ELSE Json({"message"}),
      statusCode |-> st, message |-> m ]

\* (mutant) the catch block answering 500 whatever the fault carries
StatusAlways500(st) == St(InternalError)

\* error.statusCode || 500
StatusOr500(st) == IF st.def /\ st.n # 0 THEN st ELSE St(InternalError)

\* one entry of an invocation's history: a pipeline step and its argument
Step(name, arg, st) == [step |-> name, arg |-> arg, status |-> st]

(***************************************************************************)
(* An invocation: the event the platform hands over (mutated in place by   *)
(* the middleware), the locals of the async function, and what the         *)
(* platform observes: callback calls, returned envelope, escaped fault.    *)
(***************************************************************************)
\* what the handler does: returns [response, statusCode, message], returns
\* something that is no array, or throws
Returns(x, st, m) == [kind |-> "return", response |-> x, statusCode |-> st, message |-> m,
                      fault |-> NoFault]

Throws(f) == [kind |-> "throw", response |-> Null, statusCode |-> NoStatus, message |-> NoMsg,
              fault |-> f]

NotArray == [kind |-> "notarray", response |-> Null, statusCode |-> NoStatus,
             message |-> NoMsg, fault |-> NoFault]

\* the handler has not settled yet
Pending == [kind |-> "pending", response |-> Null, statusCode |-> NoStatus,
            message |-> NoMsg, fault |-> NoFault]

NoEvent ==
    [ body |-> Null, httpMethod |-> "", path |-> <<>>,
      pathParameters |-> Null, queryStringParameters |-> Null,
      queryStringParams |-> Null, headers |-> Null, claims |-> Null ]

NoRequest == [body |-> Null, query |-> Null, headers |-> Null, params |-> Null]

IdleInv ==
    [ pc |-> "idle",
      event |-> NoEvent,
      submitted |-> NoEvent,
      cb |-> "none",
      mode |-> "inplace",
      handlerCalls |-> 0,
      handlerEvent |-> NoEvent,
      lambdaResponse |-> Pending,
      sanitized |-> NoRequest,
      rejected |-> FALSE,
      cbCalls |-> <<>>,
      returned |-> <<>>,
      escaped |-> FALSE,
      trace |-> <<>>,
      respSchema |-> "notrun",
      role |-> "notrun" ]

\* the catch block (lines 148-159)
CatchBlock(r, error) ==
    IF error.nullish
    THEN [r EXCEPT !.pc = "done", !.escaped = TRUE]
    ELSE LET response == ErrorEnvelope(error.msg, StatusOr500(error.status))
         IN  IF r.cb # "none"
             THEN [r EXCEPT !.pc = "done",
                            !.cbCalls = Append(@, response),
                            !.escaped = (r.cb = "throws")]
             ELSE [r EXCEPT !.pc = "done", !.returned = Append(@, response)]

\* a request transformer supplied by the user: a pure function of its input,
\* here one that keeps the input's properties and adds one named after itself
RequestTransform(tag, x) == Obj((IF x.kind = "obj" THEN x.keys ELSE {}) \cup {tag})

TransformerFault == Fault(Msg("transformer failed"), NoStatus)

\* _validateRequests (lines 164-197) and Object.assign(this.event, filtered)
\* (line 79).  request.headers is the event's own header object, so the
\* lower-cased names are written into the event.  The validator either strips
\* the sections in place (the event's own objects) or leaves new section
\* objects in `request` (mode).  Result: the fault flag, the event afterwards,
\* the sanitized request, and the locals body / pathParameters /
\* queryStringParameters destructured at lines 44-50 as they read afterwards.
Alias(mode, x, y) == IF mode = "inplace" /\ x.kind = "obj" THEN y ELSE x

Filtered(san, evKeys) ==
    [ body |-> san.body,
      queryStringParams |-> san.query,
      headers |-> RestoreCase(san.headers, evKeys),
      pathParameters |-> san.params ]

Validated(ev, evL, san, filtered, mode) ==
    [ fault |-> FALSE,
      event |-> [evL EXCEPT
                   !.queryStringParameters = Alias(mode, @, san.query),
                   !.body = filtered.body,
                   !.queryStringParams = filtered.queryStringParams,
                   !.headers = filtered.headers,
                   !.pathParameters = filtered.pathParameters],
      sanitized |-> san,
      body |-> Alias(mode, ev.body, san.body),
      pathParameters |-> Alias(mode, ev.pathParameters, san.params),
      queryStringParameters |-> Alias(mode, ev.queryStringParameters, san.query) ]

NotValidated(ev, evL) ==
    [ fault |-> FALSE, event |-> evL, sanitized |-> NoRequest,
      body |-> ev.body, pathParameters |-> ev.pathParameters,
      queryStringParameters |-> ev.queryStringParameters ]

ValidateRequests(p, ev, op, mode) ==
    Bind(LowerCaseInto(OrEmpty(ev.headers), HNames(OrEmpty(ev.headers))), LAMBDA lowered :
    Bind(IF ev.headers.kind = "null" THEN ev ELSE [ev EXCEPT !.headers = lowered], LAMBDA evL :
    Bind([ body |-> OrEmpty(ev.body),
           query |-> OrEmpty(ev.queryStringParameters),
           headers |-> lowered,
           params |-> OrEmpty(ev.pathParameters) ], LAMBDA request :
        IF ~RequestValid(op, request)
        THEN [NotValidated(ev, evL) EXCEPT !.fault = TRUE]
        ELSE Bind(SanitizeRequest(op, request, p.removeAdditionalRequestProps), LAMBDA san :
             Bind(Filtered(san, HNames(Alias(mode, evL.headers, san.headers))), LAMBDA filtered :
                Validated(ev, evL, san, filtered, mode))))))

\* The synchronous part of the installed function, lines 37-95, for the
\* instance parameters p, the current this.config cfg and the event e.
\* Result: whether a fault was thrown (and which), the event as mutated,
\* the new this.config, the steps run, and whether this.event was assigned.
SyncFault(ev, err, cf, tr, san) ==
    [ fault |-> TRUE, error |-> err, event |-> ev, config |-> cf, trace |-> tr,
      sanitized |-> san, rejected |-> FALSE, assigned |-> TRUE ]

SyncDone(ev, cf, tr, san) ==
    [ fault |-> FALSE, error |-> NoFault, event |-> ev, config |-> cf,
      trace |-> Append(tr, Step("handler", ev.body, NoStatus)),
      sanitized |-> san, rejected |-> FALSE, assigned |-> TRUE ]

\* requestQueryTransformer (lines 90-93), then the handler call (line 95)
QueryStage(p, cf, v, ev, tr) ==
    IF p.requestQueryTransformer = "none" THEN SyncDone(ev, cf, tr, v.sanitized)
    ELSE IF p.requestQueryTransformer = "throws"
        THEN SyncFault(ev, TransformerFault, cf, tr, v.sanitized)
    ELSE SyncDone([ev EXCEPT !.queryStringParameters =
                                RequestTransform("tq", OrEmpty(v.queryStringParameters))],
                  cf,
                  Append(tr, Step("requestQueryTransformer",
                                  OrEmpty(v.queryStringParameters), NoStatus)),
                  v.sanitized)

\* requestPathTransformer (lines 86-89)
PathStage(p, cf, v, ev, tr) ==
    IF p.requestPathTransformer = "none" THEN QueryStage(p, cf, v, ev, tr)
    ELSE IF p.requestPathTransformer = "throws"
        THEN SyncFault(ev, TransformerFault, cf, tr, v.sanitized)
    ELSE QueryStage(p, cf, v,
                    [ev EXCEPT !.pathParameters =
                                  RequestTransform("tp", OrEmpty(v.pathParameters))],
                    Append(tr, Step("requestPathTransformer",
                                    OrEmpty(v.pathParameters), NoStatus)))

\* requestBodyTransformer (lines 82-85); the transformers read the locals
\* destructured at lines 44-50, carried in v
BodyStage(p, cf, v, tr) ==
    IF p.requestBodyTransformer = "none" THEN PathStage(p, cf, v, v.event, tr)
    ELSE IF p.requestBodyTransformer = "throws"
        THEN SyncFault(v.event, TransformerFault, cf, tr, v.sanitized)
    ELSE PathStage(p, cf, v,
                   [v.event EXCEPT !.body = RequestTransform("tb", OrEmpty(v.body))],
                   Append(tr, Step("requestBodyTransformer", OrEmpty(v.body), NoStatus)))

\* request validation (lines 74-80)
ValidateStage(p, cf, ev1, mode) ==
    IF ~p.validateRequests THEN BodyStage(p, cf, NotValidated(ev1, ev1), <<>>)
    ELSE Bind(ValidateRequests(p, ev1, cf, mode), LAMBDA v :
            IF v.fault
            THEN [SyncFault(v.event, RequestValidationFault, cf, <<>>, NoRequest)
                    EXCEPT !.rejected = TRUE]
            ELSE BodyStage(p, cf, v, <<Step("sanitize", v.sanitized.body, NoStatus)>>))

\* route resolution (lines 51-72)
ResolveStage(p, cfg, ev1, mode) ==
    IF ~(p.validateRequests \/ p.validateResponses) THEN ValidateStage(p, cfg, ev1, mode)
    ELSE Bind(ToLowerVerb(ev1.httpMethod), LAMBDA verb :
         Bind(ResolveRoute(ApiSpecs[p.apiSpec], ev1.path, verb), LAMBDA op :
            IF op = "none"
            THEN SyncFault(ev1, ValidationError(PathNotFoundMsg(ev1.path, verb), St(BadRequest)),
                           cfg, <<>>, NoRequest)
            ELSE ValidateStage(p, op, ev1, mode)))

\* body parse (lines 38-41), then the rest
SyncPart(p, cfg, e, mode) ==
    IF IsJson(e.body) /\ ParseThrows(e.body)
    THEN [SyncFault(e, Fault(Msg("Unexpected token"), NoStatus), cfg, <<>>, NoRequest)
            EXCEPT !.assigned = FALSE]
    ELSE ResolveStage(p, cfg, IF IsJson(e.body) THEN [e EXCEPT !.body = JSONparse(@)] ELSE e, mode)

\* The platform invokes the installed function in slot i with event e and
\* completion callback cb ("none": not supplied, "ok", "throws").  The function
\* runs to the await of the handler, or to the end of its catch block.
Invoke(i, e, cb, mode) ==
    /\ inv[i].pc \in {"idle", "done"}
    /\ \E out \in {SyncPart(params, config, e, mode)} :
         \E r0 \in {[IdleInv EXCEPT !.event = out.event, !.submitted = e, !.cb = cb,
                                    !.mode = mode, !.trace = out.trace,
                                    !.sanitized = out.sanitized,
                                    !.rejected = out.rejected]} :
           /\ config' = out.config
           /\ thisEvent' = IF out.assigned THEN i ELSE thisEvent
           /\ inv' = [inv EXCEPT ![i] =
                        IF out.fault THEN CatchBlock(r0, out.error)
                        ELSE [r0 EXCEPT !.pc = "awaiting", !.handlerCalls = 1,
                                        !.handlerEvent = out.event]]
    /\ UNCHANGED params

(***************************************************************************)
(* After the handler: response transforms, envelope check, response        *)
(* validation and filtering, delivery (lines 98-147).                      *)
(***************************************************************************)
\* response schema of an operation: declared / required property names
RespDecl(op) ==
    CASE op = "getPet" -> {"id", "name"}
      [] op = "getStorePet" -> {"id", "store"}
      [] op = "addPet" -> {"id", "name"}
      [] op = "getMine" -> {"id", "name"}
      [] op = "getAny" -> {"id"}
      [] OTHER -> {}

RespReq(op) == IF op \in {"delAny", "empty"} THEN {} ELSE {"id"}

\* properties a role may not see
Hidden(role) == IF role \in {"admin", "null"} THEN {} ELSE {"name"}

\* ResponseValidator.validate accepts the response
ResponseValid(schema, x, role) ==
    schema = "empty" \/ (x.kind = "obj" /\ RespReq(schema) \subseteq x.keys)

\* the response as the validator leaves it (stripped in place)
SanitizeResponse(schema, x, role, remove) ==
    IF schema = "empty" \/ x.kind # "obj" THEN x
    ELSE LET y == StripTo(x, RespDecl(schema), remove)
         IN  [y EXCEPT !.keys = @ \ Hidden(role)]

ResponseValidationFault == Fault(Msg("response validation failed"), St(InternalError))

\* a transformer's result: an object that may lack body or statusCode
Result(hb, hs, b, st) == [hasBody |-> hb, hasStatus |-> hs, body |-> b, statusCode |-> st]

\* _constructDefaultResponse (lines 210-216)
ConstructDefaultResponse(response, statusCode) ==
    Result(TRUE, TRUE, IF IsJson(response) THEN JSONstringify(response) ELSE response, statusCode)

\* a response transformer supplied by the user, by behaviour:
\*   "wrap"     { body: serialized response, statusCode }
\*   "raw"      { body: response, statusCode }
\*   "nobody"   { statusCode }
\*   "nostatus" { body: serialized response }
ResponseTransform(kind, response, statusCode) ==
    LET ser == IF response.kind = "obj" THEN JSONstringify(response) ELSE response
    IN  CASE kind = "wrap" -> Result(TRUE, TRUE, ser, statusCode)
          [] kind = "raw" -> Result(TRUE, TRUE, response, statusCode)
          [] kind = "nobody" -> Result(FALSE, TRUE, Null, statusCode)
          [] OTHER -> Result(TRUE, FALSE, ser, NoStatus)

\* throw ValidationError('Response must contain a body and statusCode') (line 115):
\* ValidationError is called without `new`, unlike lines 68 and 110.  What is
\* thrown depends on how ./errors defines it:
\*   "class"     an ES6 class: the call itself throws a TypeError
\*   "function"  a constructor function: the call returns undefined, which is
\*               what gets thrown
\*   "callable"  a function that also works without new: the intended error
NoNewCalls == {"class", "function", "callable"}

EnvelopeContractFault(how) ==
    CASE how = "class" -> Fault(Msg("Class constructor cannot be invoked without 'new'"), NoStatus)
      [] how = "function" -> ThrownNull
      [] OTHER -> Fault(Msg("Response must contain a body and statusCode"), NoStatus)

\* (mutant) an undeclared status code taken for a success
IsSuccessLoose(st) == ~st.def \/ st.n < SuccessLimit

\* statusCode < 300  (undefined < 300 is false)
IsSuccess(st) == st.def /\ st.n < SuccessLimit

\* get(event, 'requestContext.authorizer.claims.<key>', claims[defaultRoleName])
RoleOf(p, claims) ==
    IF p.roleAuthorizerKey \in HNames(claims) THEN HGet(claims, p.roleAuthorizerKey)
    ELSE IF p.defaultRoleName \in HNames(claims) THEN HGet(claims, p.defaultRoleName)
    ELSE "null"

\* delivery at the end of the try block (lines 142-147); a callback that
\* throws there lands in the catch block, which calls it again
Deliver(r, response) ==
    IF r.cb = "none" THEN [r EXCEPT !.pc = "done", !.returned = Append(@, response)]
    ELSE IF r.cb = "ok" THEN [r EXCEPT !.pc = "done", !.cbCalls = Append(@, response)]
    ELSE CatchBlock([r EXCEPT !.cbCalls = Append(@, response)],
                    Fault(Msg("callback failed"), NoStatus))

\* (mutant) the branching without its final else: a non-success outcome with
\* no error transformer configured runs no branch
BranchStepsNoRaise(p, o) ==
    IF IsSuccess(o.statusCode)
    THEN IF p.responseSuccessTransformer # "none"
         THEN <<Step("responseSuccessTransformer", o.response, o.statusCode)>>
         ELSE <<Step("default", o.response, o.statusCode)>>
    ELSE IF p.responseErrorTransformer # "none"
         THEN <<Step("responseErrorTransformer", o.response, o.statusCode)>>
         ELSE <<>>

\* the steps of the status-class branching (lines 100-111) that run for a
\* handler outcome, in order
BranchSteps(p, o) ==
    LET s1 == IF IsSuccess(o.statusCode)
              THEN IF p.responseSuccessTransformer # "none"
                   THEN <<Step("responseSuccessTransformer", o.response, o.statusCode)>>
                   ELSE <<Step("default", o.response, o.statusCode)>>
              ELSE <<>>
        s2 == IF ~IsSuccess(o.statusCode) /\ p.responseErrorTransformer # "none"
              THEN Append(s1, Step("responseErrorTransformer", o.response, o.statusCode))
              ELSE s1
    IN  IF ~IsSuccess(o.statusCode) /\ p.responseErrorTransformer = "none"
        THEN Append(s2, Step("raise", o.response, o.statusCode))
        ELSE s2

\* response validation and filtering (lines 129-141), then delivery
\* (lines 142-147); cfg is the value of this.config at that moment
FilterStage(p, cfg, r, o, res, conv, toValidate) ==
    IF ~(p.validateResponses \/ p.filterByRole) THEN Deliver(r, Envelope(res.body, res.statusCode))
    ELSE IF p.filterByRole /\ p.roleAuthorizerKey # "none" /\ r.event.claims.kind = "null"
        THEN CatchBlock(r, Fault(Msg("Cannot read property of undefined"), NoStatus))
    ELSE Bind(IF p.filterByRole /\ p.roleAuthorizerKey # "none"
              THEN RoleOf(p, r.event.claims) ELSE "null", LAMBDA role :
         Bind([r EXCEPT !.respSchema = cfg, !.role = role,
                        !.trace = Append(@, Step("validateResponses", toValidate, o.statusCode))],
              LAMBDA r2 :
            IF ~ResponseValid(cfg, toValidate, role) THEN CatchBlock(r2, ResponseValidationFault)
            ELSE Bind(SanitizeResponse(cfg, toValidate, role, p.removeAdditionalResponseProps),
                      LAMBDA filtered :
                    Deliver(r2, Envelope(IF conv THEN JSONstringify(filtered) ELSE filtered,
                                         res.statusCode)))))

\* envelope check (lines 113-116) and body conversion (lines 118-127)
EnvelopeStage(p, cfg, r, o, res, how) ==
    IF ~res.hasBody \/ ~res.hasStatus THEN CatchBlock(r, EnvelopeContractFault(how))
    ELSE IF IsJson(res.body) /\ ParseThrows(res.body)
        THEN CatchBlock(r, Fault(Msg("Unexpected token"), NoStatus))
    ELSE FilterStage(p, cfg, r, o, res, IsJson(res.body),
                     IF IsJson(res.body) THEN JSONparse(res.body) ELSE res.body)

\* the transformer a branch step calls ("none" for the other steps)
TransformerOf(p, st) ==
    CASE st.step = "responseSuccessTransformer" -> p.responseSuccessTransformer
      [] st.step = "responseErrorTransformer" -> p.responseErrorTransformer
      [] OTHER -> "none"

\* `response` after a branch step
ApplyStep(p, st) ==
    IF st.step = "default" THEN ConstructDefaultResponse(st.arg, st.status)
    ELSE ResponseTransform(TransformerOf(p, st), st.arg, st.status)

\* the branch steps run in order on `response` (lines 100-111); res is the
\* value of `response` so far: the handler's payload, which is no envelope
RECURSIVE RunSteps(_, _, _, _, _, _, _)
RunSteps(p, cfg, r, o, steps, res, how) ==
    IF steps = <<>> THEN EnvelopeStage(p, cfg, r, o, res, how)
    ELSE IF Head(steps).step = "raise"
        THEN CatchBlock(r, ValidationError(IF o.message.tag = "none" THEN Msg("")
                                           ELSE o.message, o.statusCode))
    ELSE IF TransformerOf(p, Head(steps)) = "throws" THEN CatchBlock(r, TransformerFault)
    ELSE Bind(ApplyStep(p, Head(steps)), LAMBDA res2 :
            RunSteps(p, cfg, r, o, Tail(steps), res2, how))

\* The continuation after the await, lines 98-147, for the handler outcome o
\* of invocation record r, with cfg the value of this.config at that moment
\* and `how` the behaviour of the call at line 115.
AsyncPart(p, cfg, r, o, how) ==
    IF o.kind = "throw" THEN CatchBlock(r, o.fault)
    ELSE IF o.kind = "notarray"
        THEN CatchBlock(r, Fault(Msg("lambdaResponse is not iterable"), NoStatus))
    ELSE Bind(BranchSteps(p, o), LAMBDA steps :
            RunSteps(p, cfg, [r EXCEPT !.trace = @ \o steps], o, steps,
                     Result(FALSE, FALSE, o.response, NoStatus), how))

\* The handler of invocation i settles with outcome o and the function resumes.
Resume(i, o) ==
    /\ inv[i].pc = "awaiting"
    /\ \E how \in NoNewCalls :
         \E r \in {AsyncPart(params, config, [inv[i] EXCEPT !.lambdaResponse = o], o, how)} :
            inv' = [inv EXCEPT ![i] = r]
    /\ UNCHANGED <<params, config, thisEvent>>

(***************************************************************************)
(* Inputs.                                                                 *)
(***************************************************************************)
\* the constructor's defaults (lines 15-32)
DefaultParams ==
    [ apiSpec |-> "A",
      validateRequests |-> FALSE,
      validateResponses |-> FALSE,
      requestBodyTransformer |-> "none",
      requestPathTransformer |-> "none",
      requestQueryTransformer |-> "none",
      responseSuccessTransformer |-> "none",
      responseErrorTransformer |-> "none",
      removeAdditionalRequestProps |-> FALSE,
      removeAdditionalResponseProps |-> FALSE,
      roleAuthorizerKey |-> "none",
      filterByRole |-> FALSE,
      defaultRoleName |-> "default" ]

\* an event of the platform
Event(path, method, body) ==
    [NoEvent EXCEPT !.path = path, !.httpMethod = method, !.body = body]

\* state after construction (lines 11-33): this.config = {}
InitWith(P) ==
    /\ params \in P
    /\ config = "empty"
    /\ thisEvent = 0
    /\ inv = [i \in Slots |-> IdleInv]

(***************************************************************************)
(* Route resolution: one invocation at a time, every path and verb of the  *)
(* model, both declaration orders, every combination of the flags that     *)
(* guard resolution.                                                       *)
(***************************************************************************)
Paths ==
    { <<"pet", "5">>, <<"pet", "mine">>, <<"store", "pet", "5">>, <<"pet">>,
      <<"pet", "5", "extra">>, <<"zoo">>, <<"store", "5">>, <<"store", "pet">> }

Methods == {"GET", "get", "POST", "DELETE"}

RouteParams ==
    { [DefaultParams EXCEPT !.apiSpec = a, !.validateRequests = vq,
                            !.validateResponses = vr, !.filterByRole = fr] :
        a \in {"A", "B"}, vq \in BOOLEAN, vr \in BOOLEAN, fr \in BOOLEAN }

\* every path and verb with a serialized body; two events whose body is
\* already structured
RouteEvents ==
    { Event(path, m, Json({"name"})) : path \in Paths, m \in Methods }
      \cup { Event(<<"zoo">>, "GET", Obj({"name"})), Event(<<"pet">>, "POST", Obj({"name"})) }

RouteOutcomes ==
    { Returns(Obj({"id", "name"}), St(200), NoMsg), Throws(Fault(Msg("boom"), NoStatus)) }

InitRoute == InitWith(RouteParams)

NextRoute ==
    \/ \E e \in RouteEvents, cb \in {"none", "ok"} : Invoke(1, e, cb, "inplace")
    \/ \E o \in RouteOutcomes : Resume(1, o)

SpecRoute == InitRoute /\ [][NextRoute]_vars

DisjointParams == { [q EXCEPT !.apiSpec = "C"] : q \in RouteParams }

InitDisjoint == InitWith(DisjointParams)

SpecDisjoint == InitDisjoint /\ [][NextRoute]_vars

(***************************************************************************)
(* What the platform observes of an invocation, and vocabulary of the      *)
(* properties.                                                             *)
(***************************************************************************)
\* the envelopes handed to the platform, by callback or by return
Delivered(i) == inv[i].cbCalls \o inv[i].returned

Started(i) == inv[i].pc \in {"awaiting", "done"}

\* the body of invocation i got past lines 38-40: it is not an already
\* structured value, on which JSON.parse throws
BodyRead(i) == Started(i) /\ ~(IsJson(inv[i].submitted.body) /\ ParseThrows(inv[i].submitted.body))

Resolving == params.validateRequests \/ params.validateResponses

PathOf(i) == inv[i].submitted.path

VerbOf(i) == ToLowerVerb(inv[i].submitted.httpMethod)

TheSpec == ApiSpecs[params.apiSpec]

\* template k matches the path as the resolution does (exact key or pattern)
Match(k, path) == k \in ExactKey(TheSpec, path) \/ RegexTest(TheSpec[k].tpl, path)

Declares(k, verb) == TheSpec[k].ops[verb] # "none"

\* the path matches no template that declares the verb
NoRoute(path, verb) == \A k \in 1..Len(TheSpec) : ~(Match(k, path) /\ Declares(k, verb))

\* the path is the template with each variable segment replaced by a value
Instantiates(path, tpl) ==
    /\ Len(path) = Len(tpl)
    /\ \A j \in 1..Len(tpl) : tpl[j].var \/ tpl[j].s = path[j]

PathNotFoundEnvelope(i) ==
    ErrorEnvelope(PathNotFoundMsg(PathOf(i), VerbOf(i)), St(BadRequest))

C5_OwnTemplate ==
    \A i \in Slots : \A k \in 1..Len(TheSpec) :
        (BodyRead(i) /\ Resolving /\ thisEvent = i)
            => /\ (Instantiates(PathOf(i), TheSpec[k].tpl) /\ Declares(k, VerbOf(i)))
                    => config = TheSpec[k].ops[VerbOf(i)]
               /\ (Len(PathOf(i)) > Len(TheSpec[k].tpl)
                      /\ Instantiates(SubSeq(PathOf(i), 1, Len(TheSpec[k].tpl)), TheSpec[k].tpl)
                      /\ inv[i].handlerCalls = 1)
                    => config # TheSpec[k].ops[VerbOf(i)]

\* C6: resolution takes the exact key when it declares the verb; otherwise the
\* first template in declaration order whose pattern matches and which declares
\* the verb.
C6_FirstMatchWins ==
    \A i \in Slots :
        (BodyRead(i) /\ Resolving /\ thisEvent = i)
            => LET exact == { k \in ExactKey(TheSpec, PathOf(i)) : Declares(k, VerbOf(i)) }
               IN  IF exact # {}
                   THEN \A k \in exact : config = TheSpec[k].ops[VerbOf(i)]
                   ELSE \A k \in 1..Len(TheSpec) :
                          ( /\ RegexTest(TheSpec[k].tpl, PathOf(i)) /\ Declares(k, VerbOf(i))
                            /\ \A j \in 1..(k - 1) :
                                 ~(RegexTest(TheSpec[j].tpl, PathOf(i)) /\ Declares(j, VerbOf(i))) )
                          => /\ config = TheSpec[k].ops[VerbOf(i)]
                             /\ inv[i].handlerCalls = 1

C6_Witness ==
    \E i \in Slots : \E k1, k2 \in 1..Len(TheSpec) :
        /\ BodyRead(i) /\ Resolving /\ thisEvent = i
        /\ k1 < k2
        /\ ExactKey(TheSpec, PathOf(i)) = {}
        /\ RegexTest(TheSpec[k1].tpl, PathOf(i)) /\ Declares(k1, VerbOf(i))
        /\ RegexTest(TheSpec[k2].tpl, PathOf(i)) /\ Declares(k2, VerbOf(i))
        /\ TheSpec[k1].ops[VerbOf(i)] # TheSpec[k2].ops[VerbOf(i)]
        /\ config = TheSpec[k1].ops[VerbOf(i)]

(***************************************************************************)
(* Request sanitization and request transforms: POST /pet with every       *)
(* combination of body, query, path parameters and headers of the model,   *)
(* both behaviours of the validator, one invocation per instance.          *)
(***************************************************************************)
ReqParams ==
    { [DefaultParams EXCEPT !.validateRequests = vq, !.removeAdditionalRequestProps = rm,
                            !.requestBodyTransformer = tb, !.requestPathTransformer = tp,
                            !.requestQueryTransformer = tq] :
        vq \in BOOLEAN, rm \in BOOLEAN,
        tb \in {"none", "mark"}, tp \in {"none", "mark"}, tq \in {"none", "mark"} }

Bodies == { Null, Json({"name"}), Json({"name", "extra"}), Json({"extra"}), Str, Obj({"name"}) }

Queries == { Null, Obj({"q"}), Obj({"q", "junk"}) }

PathParams == { Null, Obj({"junk"}) }

Headers ==
    { Null, Obj({<<"X-Role", "admin">>}), Obj({<<"x-role", "admin">>}),
      Obj({<<"X-Role", "admin">>, <<"X-Junk", "1">>}) }

ReqEvents ==
    { [Event(<<"pet">>, "POST", b) EXCEPT !.queryStringParameters = q,
                                          !.pathParameters = pp, !.headers = h] :
        b \in Bodies, q \in Queries, pp \in PathParams, h \in Headers }

ReqOutcomes == { Returns(Obj({"id", "name"}), St(201), NoMsg) }

InitReq == InitWith(ReqParams)

NextReq ==
    \/ \E e \in ReqEvents, cb \in {"none", "ok"}, mode \in {"inplace", "replace"} :
          inv[1].pc = "idle" /\ Invoke(1, e, cb, mode)
    \/ \E o \in ReqOutcomes : Resume(1, o)

SpecReq == InitReq /\ [][NextReq]_vars

\* the body as the middleware reads it after line 39
ParsedBody(i) ==
    IF inv[i].submitted.body.kind = "json" THEN JSONparse(inv[i].submitted.body)
    ELSE inv[i].submitted.body

\* the composite request of invocation i as handed to the validator
RequestOf(i) ==
    [ body |-> OrEmpty(ParsedBody(i)),
      query |-> OrEmpty(inv[i].submitted.queryStringParameters),
      headers |-> LowerCaseInto(OrEmpty(inv[i].submitted.headers),
                                HNames(OrEmpty(inv[i].submitted.headers))),
      params |-> OrEmpty(inv[i].submitted.pathParameters) ]

OpOf(i) == ResolveRoute(TheSpec, PathOf(i), VerbOf(i))

\* the validator rejects the request of invocation i
Rejects(i) ==
    /\ BodyRead(i) /\ params.validateRequests
    /\ OpOf(i) # "none"
    /\ ~RequestValid(OpOf(i), RequestOf(i))

\* C3: with request validation enabled, a request the validator rejects ends in
\* the error envelope carrying the validation fault's status 400, and the
\* handler is never invoked.
C3_RejectedNeverHandled ==
    \A i \in Slots :
        Rejects(i) => /\ inv[i].pc = "done"
                      /\ inv[i].handlerCalls = 0
                      /\ Len(Delivered(i)) = 1
                      /\ Delivered(i)[1].statusCode = St(BadRequest)
                      /\ Delivered(i)[1].message = RequestValidationFault.msg

C3_Witness ==
    \E i \in Slots :
        /\ Rejects(i) /\ inv[i].rejected
        /\ inv[i].submitted.body = Json({"extra"})
        /\ Len(Delivered(i)) = 1 /\ Delivered(i)[1].statusCode = St(BadRequest)

\* the handler of invocation i was called after successful sanitization
Sanitized(i) == params.validateRequests /\ inv[i].handlerCalls = 1

\* C7 (as stated): with request validation enabled and the request valid, the
\* event.body, event.queryStringParameters and event.pathParameters the handler
\* receives are the validator's sanitized values (also for null query / path
\* parameters).  Stated for the fields no request transformer rewrites.
C7_HandlerSeesSanitized ==
    \A i \in Slots :
        Sanitized(i) =>
            /\ params.requestBodyTransformer = "none"
                  => inv[i].handlerEvent.body = inv[i].sanitized.body
            /\ params.requestQueryTransformer = "none"
                  => inv[i].handlerEvent.queryStringParameters = inv[i].sanitized.query
            /\ params.requestPathTransformer = "none"
                  => inv[i].handlerEvent.pathParameters = inv[i].sanitized.params

\* C8 (as stated): after successful sanitization the headers handed to the
\* handler carry every retained header under the name casing the caller
\* submitted, with its value, and no lower-cased key the caller did not submit.
C8_HeaderCasing ==
    \A i \in Slots :
        Sanitized(i) =>
            /\ \A pr \in inv[i].submitted.headers.keys :
                  LowerHeader(pr[1]) \in HNames(inv[i].sanitized.headers)
                     => pr \in inv[i].handlerEvent.headers.keys
            /\ HNames(inv[i].handlerEvent.headers) \subseteq HNames(inv[i].submitted.headers)

\* the entries of invocation i's history for one step
StepsOf(i, name) == { n \in 1..Len(inv[i].trace) : inv[i].trace[n].step = name }

\* transformer `name` ran exactly once, after sanitization and before the
\* handler, on input x, and the handler received its output y in the field
RanOnce(i, name, x, tag, y) ==
    /\ Cardinality(StepsOf(i, name)) = 1
    /\ \A n \in StepsOf(i, name) :
          /\ \A a \in StepsOf(i, "sanitize") : a < n
          /\ \A h \in StepsOf(i, "handler") : n < h
          /\ inv[i].trace[n].arg = x
    /\ y = RequestTransform(tag, x)

\* C9 (as stated): each configured request transform is applied exactly once,
\* after sanitization and before the handler, to the sanitized value of its
\* field, and the handler receives its output in that field.
C9_TransformsSanitized ==
    \A i \in Slots :
        Sanitized(i) =>
            /\ params.requestBodyTransformer # "none"
                  => RanOnce(i, "requestBodyTransformer", inv[i].sanitized.body, "tb",
                             inv[i].handlerEvent.body)
            /\ params.requestPathTransformer # "none"
                  => RanOnce(i, "requestPathTransformer", inv[i].sanitized.params, "tp",
                             inv[i].handlerEvent.pathParameters)
            /\ params.requestQueryTransformer # "none"
                  => RanOnce(i, "requestQueryTransformer", inv[i].sanitized.query, "tq",
                             inv[i].handlerEvent.queryStringParameters)

\* C19 (as stated): when request sanitization fails, the event's body, headers,
\* query parameters and path parameters hold the same keys and values as when
\* the event was handed over: no lower-cased header keys added, nothing
\* stripped, no sanitized field assigned.
C19_NothingPartiallyApplied ==
    \A i \in Slots :
        Rejects(i)
            => /\ inv[i].event.headers = inv[i].submitted.headers
               /\ inv[i].event.queryStringParameters = inv[i].submitted.queryStringParameters
               /\ inv[i].event.pathParameters = inv[i].submitted.pathParameters
               /\ inv[i].event.body.keys = inv[i].submitted.body.keys
               /\ inv[i].event.queryStringParams = Null

(***************************************************************************)
(* The response side: GET /pet/5 with every handler outcome, response      *)
(* transformer behaviour and completion convention of the model; the       *)
(* instance is invoked again after an invocation has ended.                *)
(***************************************************************************)
TransformerKinds == {"none", "wrap", "raw", "nobody", "nostatus", "throws"}

RespParams ==
    { [DefaultParams EXCEPT !.validateResponses = vr, !.responseSuccessTransformer = ts,
                            !.responseErrorTransformer = te] :
        vr \in BOOLEAN, ts \in TransformerKinds, te \in TransformerKinds }

Payloads == { Obj({"id", "name"}), Obj({"name"}), Json({"id"}), Str, Null }

Statuses == { St(200), St(299), St(300), St(404), NoStatus }

Outcomes ==
    { Returns(x, st, m) : x \in Payloads, st \in Statuses, m \in {NoMsg, Msg("not found")} }
      \cup { Throws(Fault(Msg("boom"), NoStatus)), Throws(Fault(Msg("teapot"), St(418))),
             Throws(ThrownNull), NotArray }

Callbacks == {"none", "ok", "throws"}

Init == InitWith(RespParams)

Next ==
    \/ \E cb \in Callbacks : Invoke(1, Event(<<"pet", "5">>, "GET", Null), cb, "inplace")
    \/ \E o \in Outcomes : Resume(1, o)

Spec == Init /\ [][Next]_vars

\* C1 (as stated): every invocation ends by delivering an envelope that has a
\* body and a statusCode, and no fault propagates out of the installed
\* function, whatever the handler, the transformers or the callback do.
C1_AlwaysEnvelope ==
    \A i \in Slots :
        inv[i].pc = "done"
            => /\ ~inv[i].escaped
               /\ Len(Delivered(i)) >= 1
               /\ Delivered(i)[Len(Delivered(i))].statusCode.def

BranchNames == {"responseSuccessTransformer", "default", "responseErrorTransformer", "raise"}

\* the response branch the outcome calls for
ExpectedBranch(st) ==
    IF st.def /\ st.n < SuccessLimit
    THEN IF params.responseSuccessTransformer # "none"
         THEN "responseSuccessTransformer" ELSE "default"
    ELSE IF params.responseErrorTransformer # "none"
         THEN "responseErrorTransformer" ELSE "raise"

BranchesRun(i) == { n \in 1..Len(inv[i].trace) : inv[i].trace[n].step \in BranchNames }

\* C10: for every handler outcome exactly one response branch runs, the one its
\* status class and the configuration call for, and it is handed the outcome's
\* status code; a non-success outcome with no error transformer is raised as a
\* fault carrying that status code (500 when none was declared).
C10_ExactlyOneBranch ==
    \A i \in Slots :
        (inv[i].pc = "done" /\ inv[i].lambdaResponse.kind = "return")
            => /\ Cardinality(BranchesRun(i)) = 1
               /\ \A n \in BranchesRun(i) :
                     /\ inv[i].trace[n].step = ExpectedBranch(inv[i].lambdaResponse.statusCode)
                     /\ inv[i].trace[n].status = inv[i].lambdaResponse.statusCode
                     /\ inv[i].trace[n].arg = inv[i].lambdaResponse.response
                     /\ (inv[i].trace[n].step = "raise" /\ Delivered(i) # <<>>)
                           => Delivered(i)[1].statusCode
                                = IF inv[i].lambdaResponse.statusCode.def
                                  THEN inv[i].lambdaResponse.statusCode ELSE St(InternalError)
                     /\ (inv[i].trace[n].step = "default" /\ ~params.validateResponses
                            /\ Delivered(i) # <<>>)
                           => Delivered(i)[1].statusCode = inv[i].lambdaResponse.statusCode

C10_Witness ==
    \E i \in Slots :
        /\ inv[i].pc = "done" /\ inv[i].lambdaResponse.kind = "return"
        /\ ~inv[i].lambdaResponse.statusCode.def
        /\ params.responseErrorTransformer = "none"
        /\ \E n \in BranchesRun(i) : inv[i].trace[n].step = "raise"
        /\ Len(Delivered(i)) = 1 /\ Delivered(i)[1].statusCode = St(InternalError)

\* the handler of invocation i returned [payload, statusCode, message] and the
\* continuation has run to its end
Returned(i) == inv[i].pc = "done" /\ inv[i].lambdaResponse.kind = "return"

PayloadOf(i) == inv[i].lambdaResponse.response

StatusOf(i) == inv[i].lambdaResponse.statusCode

\* the handler's message, '' when it gave none (line 98)
MessageOf(i) ==
    IF inv[i].lambdaResponse.message.tag = "none" THEN Msg("") ELSE inv[i].lambdaResponse.message

\* the handler declared a status of 300 or more, or none
DeclaredError(i) == StatusOf(i).def => StatusOf(i).n >= SuccessLimit

ValidationRan(i) == StepsOf(i, "validateResponses") # {}

\* C11: a handler outcome with status 300 or more (or none) and no error
\* transform configured ends in the error envelope carrying that status (500 if
\* none) and the serialized {message} of the handler's message; the payload is
\* not delivered and response validation is not run.
C11_DeclaredErrorRaised ==
    \A i \in Slots :
        (Returned(i) /\ DeclaredError(i) /\ params.responseErrorTransformer = "none")
            => /\ Delivered(i) # <<>>
               /\ \A n \in 1..Len(Delivered(i)) :
                     /\ Delivered(i)[n].body = Json({"message"})
                     /\ Delivered(i)[n].message = MessageOf(i)
                     /\ Delivered(i)[n].statusCode
                          = IF StatusOf(i).def THEN StatusOf(i) ELSE St(InternalError)
               /\ ~ValidationRan(i)
               /\ inv[i].respSchema = "notrun"

C11_Witness ==
    \E i \in Slots :
        /\ Returned(i) /\ params.responseErrorTransformer = "none"
        /\ params.validateResponses
        /\ StatusOf(i) = St(404) /\ PayloadOf(i) = Obj({"id", "name"})
        /\ inv[i].lambdaResponse.message = Msg("not found")
        /\ Delivered(i) = <<ErrorEnvelope(Msg("not found"), St(404))>>

\* the payload as the default success envelope should carry it
SerializedIfStructured(x) == IF x.kind = "obj" THEN Json(x.keys) ELSE x

\* C12 (as stated): a handler outcome with status below 300 and no success
\* transform configured is delivered as the envelope whose statusCode is the
\* declared status and whose body is the serialized payload when the payload is
\* structured, and the payload itself when it is not (response validation off,
\* so nothing is stripped).
C12_DefaultEnvelope ==
    \A i \in Slots :
        ( /\ Returned(i) /\ StatusOf(i).def /\ StatusOf(i).n < SuccessLimit
          /\ params.responseSuccessTransformer = "none"
          /\ ~params.validateResponses /\ ~params.filterByRole )
            => /\ Delivered(i) # <<>>
               /\ Delivered(i)[1] = Envelope(SerializedIfStructured(PayloadOf(i)), StatusOf(i))

\* the status a fault's envelope carries: its own, 500 when it has none
OwnOr500(st) == IF st.def THEN st ELSE St(InternalError)

\* C13 (as stated): every fault raised during an invocation is caught once and
\* converted into the envelope { body: serialized {message}, statusCode: the
\* fault's own or 500 }: no fault leaves the installed function, and a fault
\* thrown by the handler is delivered, once, as that envelope.
C13_FaultCaughtOnce ==
    \A i \in Slots :
        inv[i].pc = "done"
            => /\ ~inv[i].escaped
               /\ inv[i].lambdaResponse.kind = "throw"
                    => Delivered(i) = <<ErrorEnvelope(inv[i].lambdaResponse.fault.msg,
                                                      OwnOr500(inv[i].lambdaResponse.fault.status))>>

\* the response transformer that the outcome's status class selects
SelectedTransformer(i) ==
    IF StatusOf(i).def /\ StatusOf(i).n < SuccessLimit
    THEN params.responseSuccessTransformer ELSE params.responseErrorTransformer

\* C14 (as stated): when the selected transform returns a result lacking body
\* or statusCode, the result is not delivered and the invocation ends with the
\* error envelope of statusCode 500 whose message says that the response must
\* contain a body and statusCode.
C14_EnvelopeContract ==
    \A i \in Slots :
        (Returned(i) /\ SelectedTransformer(i) \in {"nobody", "nostatus"})
            => /\ Delivered(i) # <<>>
               /\ Delivered(i)[1]
                    = ErrorEnvelope(Msg("Response must contain a body and statusCode"),
                                    St(InternalError))

\* the envelope body that enters the response-filter stage (line 118): the body
\* of what the branch step of the invocation produced
EnteringBody(i) ==
    LET n == CHOOSE m \in BranchesRun(i) : TRUE
    IN  ApplyStep(params, inv[i].trace[n]).body

\* the invocation reached the response-filter stage with a body and a status
ReachedFilter(i) ==
    /\ Returned(i)
    /\ ExpectedBranch(StatusOf(i)) # "raise"
    /\ SelectedTransformer(i) \in {"none", "wrap", "raw"}

\* structured form of a body, for the validator
Structured(x) == IF x.kind = "json" THEN Obj(x.keys) ELSE x

\* C17 (as stated): the response-filter stage preserves the representation of
\* the envelope body, serialized or structured, and with nothing removed by the
\* validator the delivered body equals the body that entered the stage.
C17_RepresentationKept ==
    \A i \in Slots :
        ( /\ ReachedFilter(i)
          /\ params.validateResponses
                => ResponseValid(OpOf(i), Structured(EnteringBody(i)), "null") )
            => /\ Delivered(i) # <<>>
               /\ Delivered(i)[1].body = EnteringBody(i)

\* C18 (as stated): every invocation delivers its envelope exactly once through
\* one convention: the callback, when supplied, is called exactly once and
\* nothing is returned; otherwise the envelope is returned.  On every path,
\* also when delivering faults.
C18_DeliveredOnce ==
    \A i \in Slots :
        inv[i].pc = "done"
            => IF inv[i].cb # "none"
               THEN Len(inv[i].cbCalls) = 1 /\ inv[i].returned = <<>>
               ELSE Len(inv[i].returned) = 1 /\ inv[i].cbCalls = <<>>

(***************************************************************************)
(* Response validation and role-based filtering: GET /pet/5 under every    *)
(* combination of validateRequests, validateResponses and filterByRole,    *)
(* with and without a role-claim key, for callers with and without claims. *)
(***************************************************************************)
FilterParams ==
    { [DefaultParams EXCEPT !.validateRequests = vq, !.validateResponses = vr,
                            !.filterByRole = fr, !.roleAuthorizerKey = k,
                            !.defaultRoleName = d, !.removeAdditionalResponseProps = rm] :
        vq \in BOOLEAN, vr \in BOOLEAN, fr \in BOOLEAN, k \in {"none", "role"},
        d \in {"default", "guest"}, rm \in BOOLEAN }

\* event.requestContext.authorizer.claims: missing, without the role claim,
\* with it, and with a claim that happens to be named like the default role
ClaimSets ==
    { Null, Obj({}), Obj({<<"role", "admin">>}), Obj({<<"role", "user">>}),
      Obj({<<"default", "viewer">>}) }

FilterEvents ==
    { [Event(<<"pet", "5">>, "GET", Null) EXCEPT !.claims = c] : c \in ClaimSets }
      \cup { [Event(<<"zoo">>, "GET", Null) EXCEPT !.claims = Obj({<<"role", "admin">>})] }

FilterOutcomes ==
    { Returns(x, St(200), NoMsg) :
        x \in { Obj({"id", "name"}), Obj({"id", "name", "extra"}), Obj({"name"}),
                Json({"id", "name"}) } }

InitFilter == InitWith(FilterParams)

NextFilter ==
    \/ \E e \in FilterEvents : Invoke(1, e, "none", "inplace")
    \/ \E o \in FilterOutcomes : Resume(1, o)

SpecFilter == InitFilter /\ [][NextFilter]_vars

\* the role the claim calls for: the caller's claim when present, the
\* configured default role name otherwise
ExpectedRole(i) ==
    LET c == inv[i].submitted.claims
    IN  IF c.kind = "obj" /\ params.roleAuthorizerKey \in HNames(c)
        THEN HGet(c, params.roleAuthorizerKey)
        ELSE params.defaultRoleName

\* C16 (as stated): with role-based filtering enabled and a role-claim key
\* configured, the role passed to response filtering is the caller's claim when
\* present and the configured default role name when the claim, or the claims
\* structure, is absent; resolving it does not fault.
C16_RoleOrDefault ==
    \A i \in Slots :
        (Returned(i) /\ params.filterByRole /\ params.roleAuthorizerKey # "none")
            => inv[i].role = ExpectedRole(i)

\* C20 (as stated): for every combination of the three flags, whenever response
\* validation or role-based filtering runs, it runs against the operation
\* resolved from this invocation's path and verb, never against the initial
\* empty operation.
C20_ResolvedOperation ==
    \A i \in Slots :
        ValidationRan(i)
            => /\ inv[i].respSchema # "empty"
               /\ inv[i].respSchema = ResolveRoute(TheSpec, PathOf(i), VerbOf(i))

(***************************************************************************)
(* Concurrent invocations of one instance with response validation on.     *)
(***************************************************************************)
ConcParams == { [DefaultParams EXCEPT !.validateResponses = TRUE, !.validateRequests = vq] :
                  vq \in BOOLEAN }

ConcEvents ==
    { Event(<<"pet", "5">>, "GET", Null), Event(<<"store", "5">>, "GET", Null),
      Event(<<"store", "5">>, "DELETE", Null), Event(<<"pet">>, "POST", Json({"name"})) }

\* a payload every response schema accepts, and one that only the schema of
\* the delete operation accepts
ConcOutcomes ==
    { Returns(Obj({"id", "name"}), St(200), NoMsg), Returns(Obj({"name"}), St(200), NoMsg) }

InitConc == InitWith(ConcParams)

NextConc ==
    \/ \E i \in Slots, e \in ConcEvents : Invoke(i, e, "none", "inplace")
    \/ \E i \in Slots, o \in ConcOutcomes : Resume(i, o)

SpecConc == InitConc /\ [][NextConc]_vars

\* C2 (as stated): with two invocations running concurrently on one instance,
\* each invocation's response is validated and filtered against the operation
\* resolved from its own path and verb.
C2_OwnOperation ==
    \A i \in Slots :
        inv[i].respSchema # "notrun" => inv[i].respSchema = OpOf(i)

\* C15 (as stated): with response validation enabled, a response body that does
\* not satisfy the response schema of the invocation's operation ends in the
\* error envelope built from the response-validation fault, and the payload is
\* not delivered.
C15_InvalidNeverDelivered ==
    \A i \in Slots :
        ( /\ Returned(i) /\ params.validateResponses
          /\ PayloadOf(i).kind = "obj"
          /\ ~ResponseValid(OpOf(i), PayloadOf(i), "null") )
            => Delivered(i) = <<ErrorEnvelope(ResponseValidationFault.msg,
                                              ResponseValidationFault.status)>>

====
